---- MODULE Spec2Model ----
(***************************************************************************)
(* The observation harvester of src/main.py: the main thread deletes old   *)
(* output files, enumerates the dates, submits one process_day per date to *)
(* a pool of max_workers threads and prints each future's result; every    *)
(* pool thread runs process_day, which calls fetch_and_append_to_csv once  *)
(* per insect group; that function pages through the remote API with a     *)
(* retry loop for HTTP 429 and appends every non-empty page to the task's  *)
(* CSV file.  The remote API is the environment: each request is answered  *)
(* by one of the outcomes the code distinguishes.                          *)
(***************************************************************************)
EXTENDS Integers, Sequences, FiniteSets, TLC

\* ------------------------------------------------------------ constants

INSECT_GROUP_IDS == <<4, 8, 5, 14, 17, 18, 16, 15, 6>>

max_workers == 7

MaxAttempts == 3

limit == 100

\* ---------------------------------------------------------------- bounds

\* Number of group ids of INSECT_GROUP_IDS that are harvested (a prefix).
NumGroups == 2

\* Largest date span (the code's span is (today - start_date).days).
MaxDays == 2

\* Responses other than an empty page that the remote serves in a run of
\* up to MaxDays days, and in a run of one day.
MaxBudget == 3

DayBudget == 4

\* Date span and number of group ids of the runs that fill the thread pool.
PoolDays == 8

PoolGroups == 1

\* Number of group ids, and responses other than an empty page, of the runs
\* over observations of every shape.
RecordGroups == 1

RecordBudget == 2

\* Record counts of the non-empty pages the remote serves (at most limit).
PageSizes == {1, 5, limit}

\* The well-formed pages the remote serves: a non-empty page, with or without
\* a next-page link, and the empty page (which has none).
PageResponses ==
    [n : PageSizes, next : BOOLEAN] \cup {[n |-> 0, next |-> FALSE]}

VARIABLES
    mainPc,      \* position of the main thread (lines 136-156)
    to_remove,   \* the list glob.glob returned, while the loop of line 138 runs
    obs,         \* task -> the shape of the observations the remote holds for it
    span,        \* (today - start_date).days
    groups,      \* the group ids process_day iterates over
    dates,       \* dates_to_process
    fs,          \* the working directory: file name -> [exists, writes]
    queue,       \* the executor's work queue: submitted days not yet taken
    nthreads,    \* the number of threads the executor has started
    idle_sem,    \* the executor's count of threads idle after a work item
    th,          \* day -> the variables of the thread in process_day(day)
    futures,     \* day -> state of the future of process_day(day)
    printed,     \* the lines the as_completed loop printed
    budget,      \* responses other than an empty page the remote still serves
    reqs,        \* task -> the requests it issued, with their responses
    sleeps,      \* task -> the wait_time of each time.sleep it made
    call         \* task -> the call of fetch_and_append_to_csv for it

vars == <<mainPc, to_remove, span, obs, groups, dates, fs, queue, nthreads,
          idle_sem, th, futures, printed, budget, reqs, sleeps, call>>

\* ------------------------------------------------------------- helpers

SeqSet(s) == {s[i] : i \in 1..Len(s)}

RECURSIVE Pow2(_)
Pow2(k) == IF k = 0 THEN 1 ELSE 2 * Pow2(k - 1)

RECURSIVE SumSeq(_)
SumSeq(s) == IF s = <<>> THEN 0 ELSE Head(s) + SumSeq(Tail(s))

\* A file name without the group id: one file per day.
Filename_PerDay(d, g) == <<"observations", d, 0, "csv">>

\* f'observations_{target_date.strftime("%Y-%m-%d")}_{group_id}.csv'
Filename(d, g) == <<"observations", d, g, "csv">>

\* A pattern with another prefix, which none of the output files matches.
MatchesGlob_OtherPrefix(f) == f[1] = "observation" /\ f[4] = "csv"

\* glob.glob("observations_*.csv")
MatchesGlob(f) == f[1] = "observations" /\ f[4] = "csv"

Absent == [exists |-> FALSE, writes |-> <<>>]

\* A file a prior run left: a header and one row.
Stale == [exists |-> TRUE, writes |-> <<[header |-> TRUE, first |-> 0, n |-> 1]>>]

\* The variables of a thread that is not in process_day.
NoThread == [pc |-> "none", gi |-> 0, offset |-> 0, total_fetched |-> 0,
             write_header |-> FALSE, attempt |-> 0, total_obs_for_day |-> 0]

NoFuture == [st |-> "none", total |-> 0]

\* A task's call: how often it was made and how it ended, the count it
\* returned, the break it left the loop by, and whether the task's file
\* existed when the call began.
NotCalled == [st |-> "none", times |-> 0, count |-> 0, why |-> "none",
              existed |-> FALSE]

\* The task the thread in process_day(d) is working on.
TaskOf(d) == <<d, groups[th[d].gi]>>

FileOf(t) == Filename(t[1], t[2])

\* The days and the tasks of the run.
Days == 1..span

Tasks == Days \X SeqSet(groups)

\* ------------------------------------------------- observation records

\* A raw observation, by its nested fields: each key is missing, holds JSON
\* null, or holds a value (an object with its fields, a pair of numbers).
Missing == "missing"

Null == "null"

Present == "present"

\* The default of obs.get(key, {}) and the one of point.get('coordinates',
\* [None, None]).
EmptyDict == "{}"

NonePair == "[None, None]"

\* The shapes of an observation; an observation without a point object has
\* no coordinates.
ObsShapes ==
    {o \in [species_detail : {Missing, Null, Present},
            point : {Missing, Null, Present},
            coordinates : {Missing, Null, Present},
            location_detail : {Missing, Null, Present},
            user_detail : {Missing, Null, Present}] :
        o.point # Present => o.coordinates = Missing}

WellFormed ==
    [species_detail |-> Present, point |-> Present, coordinates |-> Present,
     location_detail |-> Present, user_detail |-> Present]

\* dict.get(key, default): the default when the key is missing, else the
\* key's value, which is None for JSON null.
Get(v, default) == IF v = Missing THEN default ELSE v

\* x.get(...) raises AttributeError when x is None.
HasGet(x) == x # Null

\* x.get('name') of a dict x: None when x has no such key.
Field(x) == IF x = Present THEN "value" ELSE Null

\* coordinates[i] if coordinates else None.
Coordinate(c) == IF c = Present THEN "value" ELSE Null

\* Lines 92-108: the row of an observation, or the AttributeError of the
\* first .get on None.
Normalize(o) ==
    LET species_detail == Get(o.species_detail, EmptyDict)
        point == Get(o.point, EmptyDict)
        location_detail == Get(o.location_detail, EmptyDict)
        user_detail == Get(o.user_detail, EmptyDict)
    IN  IF ~HasGet(species_detail) \/ ~HasGet(point)
           \/ ~HasGet(location_detail) \/ ~HasGet(user_detail)
           THEN [raised |-> TRUE]
           ELSE LET coordinates ==
                        IF point = Present THEN Get(o.coordinates, NonePair)
                        ELSE NonePair
                IN  [raised |-> FALSE,
                     common_name |-> Field(species_detail),
                     scientific_name |-> Field(species_detail),
                     longitude |-> Coordinate(coordinates),
                     latitude |-> Coordinate(coordinates),
                     location |-> Field(location_detail),
                     observer |-> Field(user_detail)]

\* ----------------------------------------------------------------- Init

\* The sets of files a prior run may have left: any of the files of the days
\* 0..n when these are few; none, all, or those of one day otherwise.
OldFiles(n, gs) ==
    LET all == {Filename(d, g) : d \in 0..n, g \in SeqSet(gs)} IN
    IF n <= MaxDays
       THEN SUBSET all
       ELSE {{}, all} \cup {{Filename(d, g) : g \in SeqSet(gs)} : d \in 0..n}

\* The state before line 137 of a run over n days and the group ids gs, with
\* a remote that serves b responses other than an empty page and whose
\* observations have one of the shapes.  The directory holds files a prior
\* run wrote for the days 0..n (a prior run's span began earlier).
RunInit(n, gs, b, shapes) ==
    /\ mainPc = "cleanup"
    /\ to_remove = {}
    /\ span = n
    /\ \E o \in shapes : obs = [t \in (1..n) \X SeqSet(gs) |-> o]
    /\ groups = gs
    /\ budget = b
    /\ dates = <<>>
    /\ queue = <<>>
    /\ nthreads = 0
    /\ idle_sem = 0
    /\ th = [d \in 1..n |-> NoThread]
    /\ futures = [d \in 1..n |-> NoFuture]
    /\ printed = {}
    /\ reqs = [t \in (1..n) \X SeqSet(gs) |-> <<>>]
    /\ sleeps = [t \in (1..n) \X SeqSet(gs) |-> <<>>]
    /\ call = [t \in (1..n) \X SeqSet(gs) |-> NotCalled]
    /\ \E old \in OldFiles(n, gs) :
          fs = [f \in {Filename(d, g) : d \in 0..n, g \in SeqSet(gs)} |->
                   IF f \in old THEN Stale ELSE Absent]

Init ==
    \E n \in 0..MaxDays :
       RunInit(n, SubSeq(INSECT_GROUP_IDS, 1, NumGroups), MaxBudget,
               {WellFormed})

InitOneDay ==
    RunInit(1, SubSeq(INSECT_GROUP_IDS, 1, NumGroups), DayBudget, {WellFormed})

InitPool ==
    RunInit(PoolDays, SubSeq(INSECT_GROUP_IDS, 1, PoolGroups), 0, {WellFormed})

\* ---------------------------------------------------------- main thread

\* Line 138: glob.glob lists the files that match the pattern.
Glob ==
    /\ mainPc = "cleanup"
    /\ to_remove' = {f \in DOMAIN fs : fs[f].exists /\ MatchesGlob(f)}
    /\ mainPc' = "remove"
    /\ UNCHANGED <<span, obs, groups, dates, fs, queue, nthreads, idle_sem,
                   th, futures, printed, budget, reqs, sleeps, call>>

\* Line 139: os.remove(f), for the files of the list in the list's order,
\* which is any order.
Remove(f) ==
    /\ mainPc = "remove"
    /\ f \in to_remove
    /\ fs[f].exists
    /\ fs' = [fs EXCEPT ![f] = Absent]
    /\ UNCHANGED <<mainPc, to_remove, span, obs, groups, dates, queue,
                   nthreads, idle_sem, th, futures, printed, budget, reqs,
                   sleeps, call>>

\* Lines 141-143, after the loop of line 138 has removed every file of the
\* list: start_date + i for i in range(span); day 1 is start_date.
Enumerate ==
    /\ mainPc = "remove"
    /\ \A f \in to_remove : ~fs[f].exists
    /\ to_remove' = {}
    /\ dates' = [i \in 1..span |-> 1 + (i - 1)]
    /\ mainPc' = "submit"
    /\ UNCHANGED <<span, obs, groups, fs, queue, nthreads, idle_sem, th,
                   futures, printed, budget, reqs, sleeps, call>>

\* Number of futures created so far.
Submitted == Cardinality({d \in Days : futures[d].st # "none"})

\* The pool with an off-by-one limit: a thread more than max_workers.
MayStartThread_OneMore == nthreads <= max_workers

\* ThreadPoolExecutor(max_workers=7): a submit starts a new thread when no
\* thread is idle after a work item and fewer than max_workers threads exist.
MayStartThread == nthreads < max_workers

\* Line 147, one executor.submit(process_day, date).
Submit ==
    /\ mainPc = "submit"
    /\ Submitted < Len(dates)
    /\ LET d == dates[Submitted + 1] IN
          /\ futures' = [futures EXCEPT ![d] = [st |-> "pending", total |-> 0]]
          /\ queue' = Append(queue, d)
          /\ IF idle_sem > 0
                THEN idle_sem' = idle_sem - 1 /\ nthreads' = nthreads
                ELSE /\ idle_sem' = idle_sem
                     /\ nthreads' = IF MayStartThread THEN nthreads + 1 ELSE nthreads
    /\ UNCHANGED <<mainPc, to_remove, span, obs, groups, dates, fs, th,
                   printed, budget, reqs, sleeps, call>>

\* Line 147 ends: all dates are submitted; the as_completed loop begins.
SubmitDone ==
    /\ mainPc = "submit"
    /\ Submitted = Len(dates)
    /\ mainPc' = "collect"
    /\ UNCHANGED <<to_remove, span, obs, groups, dates, fs, queue, nthreads,
                   idle_sem, th, futures, printed, budget, reqs, sleeps,
                   call>>

Collected == {line.day : line \in printed}

\* Line 134: the string process_day returns holds the date and the day's
\* total; line 154: the line printed for a future that raised holds the
\* exception only.
ResultLine(d, future) ==
    IF future.st = "finished"
       THEN [day |-> d, kind |-> "result", total |-> future.total]
       ELSE [day |-> d, kind |-> "exception", total |-> 0]

\* Lines 149-154: one iteration of the as_completed loop.
Collect(d) ==
    /\ mainPc = "collect"
    /\ d \in SeqSet(dates) \ Collected
    /\ futures[d].st \in {"finished", "raised"}
    /\ printed' = printed \cup {ResultLine(d, futures[d])}
    /\ UNCHANGED <<mainPc, to_remove, span, obs, groups, dates, fs, queue,
                   nthreads, idle_sem, th, futures, budget, reqs, sleeps,
                   call>>

\* Lines 155-156: the loop and the with block end; "All finished." is printed.
Finish ==
    /\ mainPc = "collect"
    /\ Collected = SeqSet(dates)
    /\ mainPc' = "done"
    /\ UNCHANGED <<to_remove, span, obs, groups, dates, fs, queue, nthreads,
                   idle_sem, th, futures, printed, budget, reqs, sleeps,
                   call>>

\* --------------------------------------------------------- pool threads
\* A thread's steps are the points where it meets the world: it takes a work
\* item, sends a request, receives the response, sleeps.  What a thread does
\* between two of them touches only its own variables and its own task's
\* file, and belongs to the step before.

\* The days whose process_day a thread is running.
Running == {d \in Days : futures[d].st = "running"}

\* A pool whose idle threads wait while any work item runs: the work items
\* run one at a time.
IdleThreads_WhenNoneRuns ==
    IF Running = {} THEN nthreads - Cardinality(Running) ELSE 0

\* The pool's threads are interchangeable and keep nothing from one work
\* item to the next: a thread is known by the day it is working on, and the
\* idle ones by their number.
IdleThreads == nthreads - Cardinality(Running)

\* Line 52.
WriteHeaderAtStart(file) == ~file.exists

\* Lines 130-131 and 39-52: process_day calls fetch_and_append_to_csv for the
\* group at index gi; the thread's variables up to the first request.
BeginCall(d, gi, day_total) ==
    [pc |-> "request", gi |-> gi, offset |-> 0,
     total_fetched |-> 0,
     write_header |-> WriteHeaderAtStart(fs[Filename(d, groups[gi])]),
     attempt |-> 0, total_obs_for_day |-> day_total]

Called(d, gi) ==
    [st |-> "running", times |-> call[<<d, groups[gi]>>].times + 1,
     count |-> 0, why |-> "none",
     existed |-> fs[Filename(d, groups[gi])].exists]

\* A pool thread takes the oldest work item and runs process_day up to the
\* first request of the first group (lines 126-131, 39-58).
Take(d) ==
    /\ queue # <<>>
    /\ d = Head(queue)
    /\ IdleThreads > 0
    /\ queue' = Tail(queue)
    /\ futures' = [futures EXCEPT ![d].st = "running"]
    /\ th' = [th EXCEPT ![d] = BeginCall(d, 1, 0)]
    /\ call' = [call EXCEPT ![<<d, groups[1]>>] = Called(d, 1)]
    /\ UNCHANGED <<mainPc, to_remove, span, obs, groups, dates, fs, nthreads,
                   idle_sem, printed, budget, reqs, sleeps>>

\* A request that does not block: the loop goes on to issue the request again
\* while the response is outstanding.
AfterSend_NotBlocking == "request"

\* Line 58: requests.get returns or raises when the response is there; the
\* thread is blocked in it until then.
AfterSend == "inflight"

\* Line 58: requests.get is called; the response is outstanding.
SendRequest(w) ==
    /\ th[w].pc = "request"
    /\ LET t == TaskOf(w) IN
          reqs' = [reqs EXCEPT ![t] = Append(@,
                     [offset |-> th[w].offset, attempt |-> th[w].attempt,
                      status |-> "outstanding", n |-> 0, next |-> FALSE])]
    /\ th' = [th EXCEPT ![w].pc = AfterSend]
    /\ UNCHANGED <<mainPc, to_remove, span, obs, groups, dates, fs, queue,
                   nthreads, idle_sem, futures, printed, budget, sleeps,
                   call>>

\* The log of task t with its outstanding request answered.
Answered(t, status, n, next) ==
    [reqs EXCEPT ![t][Len(reqs[t])].status = status,
                 ![t][Len(reqs[t])].n = n,
                 ![t][Len(reqs[t])].next = next]

\* Line 119: the value the function returns.
ReturnValue(r) == r.total_fetched

\* Line 132 with = for +=: the day's total is the last group's count.
DayTotal_LastGroup(r) == ReturnValue(r)

\* Line 132.
DayTotal(r) == r.total_obs_for_day + ReturnValue(r)

\* Line 129: whether the for loop has another group after index gi.
HasNextGroup(gi) == gi < Len(groups)

\* A break out of the while loop (lines 76, 82, 86, 115) by the thread whose
\* variables are r, and the return (lines 118-119): process_day adds the
\* count to the day's total (line 132) and calls the function for the next
\* group, or returns (line 134); then the executor stores the result in the
\* future and the thread is idle again.
TaskReturns(w, r, why) ==
    LET t == TaskOf(w)
        d == w
        done == [call[t] EXCEPT !.st = "returned", !.count = ReturnValue(r),
                                !.why = why]
    IN
    IF HasNextGroup(r.gi)
       THEN /\ th' = [th EXCEPT ![w] = BeginCall(d, r.gi + 1, DayTotal(r))]
            /\ call' = [call EXCEPT ![t] = done,
                                    ![<<d, groups[r.gi + 1]>>] = Called(d, r.gi + 1)]
            /\ UNCHANGED <<futures, idle_sem>>
       ELSE /\ th' = [th EXCEPT ![w] = NoThread]
            /\ call' = [call EXCEPT ![t] = done]
            /\ futures' = [futures EXCEPT ![d] =
                              [st |-> "finished", total |-> DayTotal(r)]]
            /\ idle_sem' = idle_sem + 1

\* Line 85 without the break: an empty page is handled like any other.
NoResults_Never(n) == n < 0

\* Line 85: if not results.
NoResults(n) == n = 0

\* Line 112 left out: write_header is never reset.
HeaderAfterAppend_NotReset == TRUE

\* Line 112.
HeaderAfterAppend == FALSE

\* Lines 110-111 with mode='w': every page replaces the file.
AppendPage_Overwrite(file, header, first, n) ==
    [exists |-> TRUE,
     writes |-> <<[header |-> header, first |-> first, n |-> n]>>]

\* Lines 110-111: df.to_csv(filename, mode='a', header=write_header).
AppendPage(file, header, first, n) ==
    [exists |-> TRUE,
     writes |-> Append(file.writes, [header |-> header, first |-> first, n |-> n])]

\* Line 88 with = for +=: the count of the last page only.
CountAfterPage_Assign(total, n) == n

\* Line 88.
CountAfterPage(total, n) == total + n

\* The offset advanced by the page size asked for, not by len(results).
NextOffset_ByLimit(offset, n) == offset + limit

\* Line 116.
NextOffset(offset, n) == offset + n

\* Without the test of line 114: the loop goes on after every page with
\* results.
IsLastPage_Never(next) == FALSE

\* Line 114: data.get('next') is None.
IsLastPage(next) == ~next

\* An attempt counter kept across the pages: the next page starts with the
\* attempts the last page used.
FirstAttempt_Carried(attempt) == attempt

\* Line 56: the for loop over range(3) starts anew in every iteration of the
\* while loop, whatever the attempts of the page before.
FirstAttempt(attempt) == 0

\* A 2xx response whose body is an object with n results of the task's
\* shape, which lines 90-108 turn into rows (lines 59-60 and 78-116).
RecvPage(w, n, next) ==
    /\ th[w].pc = "inflight"
    /\ n > 0 => budget > 0
    /\ n > 0 => ~Normalize(obs[TaskOf(w)]).raised
    /\ budget' = IF n > 0 THEN budget - 1 ELSE budget
    /\ LET t == TaskOf(w)
           f == FileOf(t)
           r == [th[w] EXCEPT !.total_fetched = CountAfterPage(@, n),
                              !.write_header = HeaderAfterAppend]
       IN
          /\ reqs' = Answered(t, "ok", n, next)
          /\ IF NoResults(n)
                THEN /\ TaskReturns(w, th[w], "empty")
                     /\ fs' = fs
                ELSE /\ fs' = [fs EXCEPT ![f] =
                           AppendPage(fs[f], th[w].write_header, th[w].offset, n)]
                     /\ IF IsLastPage(next)
                           THEN TaskReturns(w, r, "nonext")
                           ELSE /\ th' = [th EXCEPT ![w] =
                                      [r EXCEPT !.pc = "request",
                                                !.offset = NextOffset(@, n),
                                                !.attempt = FirstAttempt(@)]]
                                /\ UNCHANGED <<call, futures, idle_sem>>
    /\ UNCHANGED <<mainPc, to_remove, span, obs, groups, dates, queue,
                   nthreads, printed, sleeps>>

\* Line 62 with the bound off by one: a retry after the third 429 too.
RetryAfter429_OneMore(attempt) == attempt < MaxAttempts

\* Line 62: a 429 is retried while attempt < 2.
RetryAfter429(attempt) == attempt < MaxAttempts - 1

\* Line 63.
WaitTime(attempt) == Pow2(attempt)

\* raise_for_status raises HTTPError with status 429 (lines 61-69).
Recv429(w) ==
    /\ th[w].pc = "inflight"
    /\ budget > 0
    /\ budget' = budget - 1
    /\ reqs' = Answered(TaskOf(w), "429", 0, FALSE)
    /\ IF RetryAfter429(th[w].attempt)
          THEN /\ th' = [th EXCEPT ![w].pc = "sleep"]
               /\ UNCHANGED <<call, futures, idle_sem>>
          ELSE TaskReturns(w, th[w], "failed")
    /\ UNCHANGED <<mainPc, to_remove, span, obs, groups, dates, fs, queue,
                   nthreads, printed, sleeps>>

\* Line 65: time.sleep(wait_time), then the next iteration of the for loop.
Sleep(w) ==
    /\ th[w].pc = "sleep"
    /\ sleeps' = [sleeps EXCEPT ![TaskOf(w)] = Append(@, WaitTime(th[w].attempt))]
    /\ th' = [th EXCEPT ![w].pc = "request", ![w].attempt = @ + 1]
    /\ UNCHANGED <<mainPc, to_remove, span, obs, groups, dates, fs, queue,
                   nthreads, idle_sem, futures, printed, budget, reqs, call>>

\* Line 62 without the test of the status code: every HTTPError is retried.
ShouldRetry_AnyStatus(kind, attempt) ==
    kind \in {"429", "httperror"} /\ RetryAfter429(attempt)

\* Line 62: e.response.status_code == 429 and attempt < 2.  The except
\* clause of lines 70-73 and the one of lines 80-82 have no retry.
ShouldRetry(kind, attempt) == kind = "429" /\ RetryAfter429(attempt)

\* The responses that end the task with response = None or at the JSON
\* decoding: an HTTPError other than 429 (lines 66-69), any other
\* RequestException (lines 70-73), a body that is not JSON (lines 80-82).
TerminalKinds == {"httperror", "neterror", "badjson"}

RecvTerminal(w, kind) ==
    /\ th[w].pc = "inflight"
    /\ budget > 0
    /\ budget' = budget - 1
    /\ reqs' = Answered(TaskOf(w), kind, 0, FALSE)
    /\ IF ShouldRetry(kind, th[w].attempt)
          THEN /\ th' = [th EXCEPT ![w].pc = "sleep"]
               /\ UNCHANGED <<call, futures, idle_sem>>
          ELSE TaskReturns(w, th[w], "failed")
    /\ UNCHANGED <<mainPc, to_remove, span, obs, groups, dates, fs, queue,
                   nthreads, printed, sleeps>>

\* The 2xx bodies on which the function raises: JSON that is not an object
\* (data.get, line 84, AttributeError) and results of a shape on which lines
\* 92-108 raise.
RaisingKinds == {"notobject", "nullnested"}

\* Nothing catches the exception in fetch_and_append_to_csv or in
\* process_day (lines 129-132): it ends the work item, the executor stores
\* it in the future and the thread is idle again.
TaskRaises(w) ==
    /\ call' = [call EXCEPT ![TaskOf(w)].st = "raised", ![TaskOf(w)].why = "raised"]
    /\ futures' = [futures EXCEPT ![w] = [st |-> "raised", total |-> 0]]
    /\ idle_sem' = idle_sem + 1
    /\ th' = [th EXCEPT ![w] = NoThread]

RecvRaising(w, kind) ==
    /\ th[w].pc = "inflight"
    /\ budget > 0
    /\ kind = "nullnested" => Normalize(obs[TaskOf(w)]).raised
    /\ budget' = budget - 1
    /\ reqs' = Answered(TaskOf(w), kind, 0, FALSE)
    /\ TaskRaises(w)
    /\ UNCHANGED <<mainPc, to_remove, span, obs, groups, dates, fs, queue,
                   nthreads, printed, sleeps>>

\* ------------------------------------------------------- specifications

\* The threads in process_day, by day.
Threads == Running

Next ==
    \/ Glob
    \/ \E f \in DOMAIN fs : Remove(f)
    \/ Enumerate
    \/ Submit
    \/ SubmitDone
    \/ \E d \in Days : Collect(d)
    \/ Finish
    \/ \E d \in Days : Take(d)
    \/ \E w \in Threads : SendRequest(w)
    \/ \E w \in Threads : \E resp \in PageResponses :
          RecvPage(w, resp.n, resp.next)
    \/ \E w \in Threads : Recv429(w)
    \/ \E w \in Threads : Sleep(w)
    \/ \E w \in Threads : \E kind \in TerminalKinds : RecvTerminal(w, kind)
    \/ \E w \in Threads : \E kind \in RaisingKinds : RecvRaising(w, kind)

\* The run over up to MaxDays days.
Spec == Init /\ [][Next]_vars

\* The run of one day, with a remote that serves more pages and failures.
SpecOneDay == InitOneDay /\ [][Next]_vars

\* The runs that fill the thread pool: more days than the pool has threads,
\* against a remote without records, which answers every request with an
\* empty page.
NextPool ==
    \/ Glob
    \/ \E f \in DOMAIN fs : Remove(f)
    \/ Enumerate
    \/ Submit
    \/ SubmitDone
    \/ \E d \in Days : Collect(d)
    \/ Finish
    \/ \E d \in Days : Take(d)
    \/ \E w \in Threads : SendRequest(w)
    \/ \E w \in Threads : RecvPage(w, 0, FALSE)

SpecPool == InitPool /\ [][NextPool]_vars

\* One day of runs over observations of every shape, with a remote that
\* answers every request with a 2xx response.
InitRecords ==
    RunInit(1, SubSeq(INSECT_GROUP_IDS, 1, RecordGroups), RecordBudget,
            ObsShapes)

NextRecords ==
    \/ Glob
    \/ \E f \in DOMAIN fs : Remove(f)
    \/ Enumerate
    \/ Submit
    \/ SubmitDone
    \/ \E d \in Days : Collect(d)
    \/ Finish
    \/ \E d \in Days : Take(d)
    \/ \E w \in Threads : SendRequest(w)
    \/ \E w \in Threads : \E resp \in PageResponses :
          RecvPage(w, resp.n, resp.next)
    \/ \E w \in Threads : \E kind \in RaisingKinds : RecvRaising(w, kind)

SpecRecords == InitRecords /\ [][NextRecords]_vars

\* ------------------------------------------------- what a run leaves

\* The data rows and the header rows of a file.
RECURSIVE Rows(_)
Rows(writes) == IF writes = <<>> THEN 0 ELSE Head(writes).n + Rows(Tail(writes))

RECURSIVE Headers(_)
Headers(writes) ==
    IF writes = <<>> THEN 0
    ELSE (IF Head(writes).header THEN 1 ELSE 0) + Headers(Tail(writes))

\* A request that was answered by a page with results.
IsPage(q) == q.status = "ok" /\ q.n > 0

\* The pages with results that task t received, in order.
PagesOf(t) == SelectSeq(reqs[t], IsPage)

\* The writes that persist the pages ps, one per page, without the header flag.
RECURSIVE AsWrites(_)
AsWrites(ps) ==
    IF ps = <<>> THEN <<>>
    ELSE <<[first |-> Head(ps).offset, n |-> Head(ps).n]>> \o AsWrites(Tail(ps))

RECURSIVE WithoutHeader(_)
WithoutHeader(writes) ==
    IF writes = <<>> THEN <<>>
    ELSE <<[first |-> Head(writes).first, n |-> Head(writes).n]>>
         \o WithoutHeader(Tail(writes))

\* The tasks whose call was made, and those that ended in a terminal failure
\* of a page request (the breaks of lines 76 and 82).
Handed == {t \in Tasks : call[t].st # "none"}

TerminalFailed == {t \in Tasks : call[t].st = "returned" /\ call[t].why = "failed"}

Raised == {t \in Tasks : call[t].st = "raised"}

\* ---------------------------------------------------------------- C1
\* C1: for every date span of N days and G group ids, the tasks the run hands
\* to fetch_and_append_to_csv are exactly the N*G pairs of a date of the span
\* and a group id, each handed once: when the run is done no pair is missing
\* and none was handed twice.
C1_AllTasksHandedOnce ==
    mainPc = "done" =>
       /\ Cardinality(Tasks) = span * Len(groups)
       /\ Handed = SeqSet(dates) \X SeqSet(groups)
       /\ \A t \in Tasks : call[t].times = 1

\* ---------------------------------------------------------------- C2
\* The first k requests of task t were answered by pages with results and a
\* next-page link, and request k+1 by an empty page.
PagesThenEmpty(t, k) ==
    /\ Len(reqs[t]) >= k + 1
    /\ \A i \in 1..k : IsPage(reqs[t][i]) /\ reqs[t][i].next
    /\ reqs[t][k + 1].status = "ok" /\ reqs[t][k + 1].n = 0

\* C2: a task whose requests are answered by k non-empty pages, each with a
\* next-page link, and then an empty page issues exactly k+1 requests (none
\* after the empty page) and persists exactly the k pages: the file holds k
\* writes whose rows are the sum of the pages' records, which is also the
\* count returned.
C2_PaginationStopsAtEmptyPage ==
    \A t \in Tasks : \A k \in 0..Len(reqs[t]) :
       PagesThenEmpty(t, k) =>
          /\ Len(reqs[t]) = k + 1
          /\ Len(fs[FileOf(t)].writes) = k
          /\ Rows(fs[FileOf(t)].writes) = SumSeq([i \in 1..k |-> reqs[t][i].n])
          /\ call[t].st = "returned"
          /\ call[t].count = SumSeq([i \in 1..k |-> reqs[t][i].n])

\* Two pages of limit records and an empty page: 200 rows.
C2_Witness ==
    \E t \in Tasks :
       /\ PagesThenEmpty(t, 2)
       /\ reqs[t][1].n = limit /\ reqs[t][2].n = limit
       /\ Rows(fs[FileOf(t)].writes) = 200
       /\ mainPc = "done"

\* ---------------------------------------------------------------- C3
\* Requests i, i+1 and i+2 of task t were answered by 429, and they are the
\* first three attempts of a page.
Three429(t, i) ==
    /\ i + 2 <= Len(reqs[t])
    /\ \A j \in i..(i + 2) : reqs[t][j].status = "429"
    /\ i > 1 => reqs[t][i - 1].status # "429"

\* C3: when a page request is answered by 429 three times in a row, these are
\* the attempts 0, 1 and 2 of one offset, the waits between them are 2^0 and
\* 2^1, no fourth attempt and no other request follows, and the call has
\* ended by the break for a failed page.
C3_ThreeAttemptsThenFailed ==
    \A t \in Tasks : \A i \in 1..Len(reqs[t]) :
       Three429(t, i) =>
          /\ Len(reqs[t]) = i + 2
          /\ \A j \in 0..2 : /\ reqs[t][i + j].attempt = j
                             /\ reqs[t][i + j].offset = reqs[t][i].offset
          /\ Len(sleeps[t]) >= 2
          /\ SubSeq(sleeps[t], Len(sleeps[t]) - 1, Len(sleeps[t])) = <<1, 2>>
          /\ call[t].st = "returned"
          /\ call[t].why = "failed"

\* A task's first page was answered by 429 three times, and the run is done.
C3_Witness ==
    \E t \in Tasks : Three429(t, 1) /\ mainPc = "done"

\* ---------------------------------------------------------------- C4
\* C4: in every reachable state every file holds at most one header row; a
\* header is written only by the first append to the file, and a task whose
\* file did not exist when its call began writes the header with its first
\* append and with no later one, however many pages it appends.
C4_HeaderAtMostOnce ==
    /\ \A f \in DOMAIN fs :
          /\ Headers(fs[f].writes) <= 1
          /\ \A i \in 2..Len(fs[f].writes) : ~fs[f].writes[i].header
    /\ \A t \in Handed :
          (~call[t].existed /\ fs[FileOf(t)].writes # <<>>)
             => fs[FileOf(t)].writes[1].header

\* A task appended two pages to a file that did not exist when it began.
C4_Witness ==
    \E t \in Handed :
       /\ ~call[t].existed
       /\ Len(fs[FileOf(t)].writes) = 2
       /\ Headers(fs[FileOf(t)].writes) = 1

\* ---------------------------------------------------------------- C5
\* C5: when a call has ended by a terminal failure of a page request, the
\* task's file holds exactly the pages the task received before, one write
\* per page, with the page's rows, in the order they were received.
C5_FailureKeepsEarlierPages ==
    \A t \in TerminalFailed :
       WithoutHeader(fs[FileOf(t)].writes) = AsWrites(PagesOf(t))

\* A task received a page and then three 429 for the next one.
C5_Witness ==
    \E t \in TerminalFailed :
       /\ Len(PagesOf(t)) = 1
       /\ Three429(t, 2)
       /\ Rows(fs[FileOf(t)].writes) = reqs[t][1].n

\* ---------------------------------------------------------------- C6
\* The outcome of a call that the orchestrator receives: the value returned
\* at line 119, which process_day adds to the day's total.
Outcome(t) == call[t].count

\* C6: a task that was stopped by a terminal page failure reports an outcome
\* other than that of a task that completed its pages with the same number
\* of records.
C6_FailedOutcomeDiffers ==
    \A t \in TerminalFailed : \A u \in Tasks :
       (/\ call[u].st = "returned"
        /\ call[u].why \in {"empty", "nonext"}
        /\ Rows(fs[FileOf(u)].writes) = Rows(fs[FileOf(t)].writes))
          => Outcome(t) # Outcome(u)

\* ---------------------------------------------------------------- C7
\* C7: when the run is done and a task ended in a terminal request failure
\* or raised an exception, every task of the run was still executed: its
\* call was made and has ended.
C7_OtherTasksStillRun ==
    (mainPc = "done" /\ (TerminalFailed \cup Raised) # {}) =>
       \A u \in Tasks : call[u].st \in {"returned", "raised"}

\* ---------------------------------------------------------------- C8
\* The tasks whose call is running.
RunningTasks == {t \in Tasks : call[t].st = "running"}

\* C8: in every reachable state at most max_workers = 7 tasks are being
\* executed, every task being executed has a thread of its own (no thread
\* has begun a task before it ended the one before), and the tasks of one
\* day are executed one at a time.
C8_AtMostSevenAtOnce ==
    /\ Cardinality(RunningTasks) <= 7
    /\ Cardinality(RunningTasks) <= nthreads
    /\ nthreads <= max_workers
    /\ \A t \in RunningTasks : \A u \in RunningTasks : t[1] = u[1] => t = u

\* Seven tasks are being executed and an eighth day waits in the queue.
C8_Witness ==
    /\ Cardinality(RunningTasks) = 7
    /\ queue # <<>>

\* ---------------------------------------------------------------- C9
\* The run's summary is what the main thread receives from the futures and
\* prints (lines 149-154): per day, the string of line 134 with the day's
\* total, or the exception.  (The threads' own log lines, 67, 71, 81 and
\* 118, are not handed to the main thread.)
RECURSIVE SumTotals(_)
SumTotals(lines) ==
    IF lines = {} THEN 0
    ELSE LET line == CHOOSE x \in lines : TRUE
         IN  line.total + SumTotals(lines \ {line})

\* The count the summary gives for a task, and the tasks it lists as failed:
\* the lines of the kinds "task" and "failed", of which the code prints none.
ReportsCount(t) ==
    \E line \in printed :
       line.kind = "task" /\ line.task = t /\ line.count = call[t].count

ReportedFailed ==
    {t \in Tasks : \E line \in printed : line.kind = "failed" /\ line.task = t}

\* All requests of task t were answered by well-formed pages and its call
\* returned at the empty page or at the page without a next-page link.
Completed(t) ==
    /\ call[t].st = "returned"
    /\ call[t].why \in {"empty", "nonext"}
    /\ \A i \in 1..Len(reqs[t]) : reqs[t][i].status = "ok"

\* The end-to-end scenario: groups [4, 8] over two days; group 4/day 1
\* returns 5 records, group 8/day 1 none, group 4/day 2 one record paged as
\* 1+0, group 8/day 2 a terminal error on its first page; the run is done.
Scenario ==
    /\ mainPc = "done"
    /\ span = 2
    /\ groups = <<4, 8>>
    /\ Completed(<<1, 4>>) /\ SumSeq([i \in 1..Len(reqs[<<1, 4>>]) |->
                                          reqs[<<1, 4>>][i].n]) = 5
    /\ Completed(<<1, 8>>) /\ Len(reqs[<<1, 8>>]) = 1 /\ reqs[<<1, 8>>][1].n = 0
    /\ Completed(<<2, 4>>) /\ PagesThenEmpty(<<2, 4>>, 1) /\ reqs[<<2, 4>>][1].n = 1
    /\ Len(reqs[<<2, 8>>]) = 1 /\ reqs[<<2, 8>>][1].status \in TerminalKinds

\* C9: when the run is done its summary holds the count of every task and
\* lists exactly the tasks that ended in a terminal failure; in the scenario
\* it reports a total of 6 and the one failed task (day 2, group 8).
C9_SummaryListsCountsAndFailures ==
    mainPc = "done" =>
       /\ \A t \in Tasks : ReportsCount(t)
       /\ ReportedFailed = TerminalFailed
       /\ Scenario => (SumTotals(printed) = 6 /\ ReportedFailed = {<<2, 8>>})

\* ---------------------------------------------------------------- C10
ExistingFiles == {f \in DOMAIN fs : fs[f].exists}

\* C10 as stated: after the scenario's run four output files exist, and the
\* failed task's file is absent or empty.
C10_FourFilesExist ==
    Scenario =>
       /\ Cardinality(ExistingFiles) = 4
       /\ \/ ~fs[Filename(2, 8)].exists
          \/ Rows(fs[Filename(2, 8)].writes) = 0

\* C10, amended: after the scenario's run exactly the files of the two tasks
\* that received records exist, group 4/day 1 with a header and 5 rows and
\* group 4/day 2 with a header and 1 row; the file of the failed task and
\* the file of the task without records are absent.
C10_OnlyFilesWithRecordsExist ==
    Scenario =>
       /\ ExistingFiles = {Filename(1, 4), Filename(2, 4)}
       /\ Rows(fs[Filename(1, 4)].writes) = 5
       /\ Rows(fs[Filename(2, 4)].writes) = 1
       /\ Headers(fs[Filename(1, 4)].writes) = 1
       /\ Headers(fs[Filename(2, 4)].writes) = 1
       /\ ~fs[Filename(2, 8)].exists
       /\ ~fs[Filename(1, 8)].exists

\* The scenario's run is done, with its two files.
C10_Witness ==
    Scenario /\ Cardinality(ExistingFiles) = 2

\* ---------------------------------------------------------------- C11
\* The requests of task t that failed with something other than HTTP 429: a
\* non-2xx status that is not 429, or a network error.
NonRetryable(q) == q.status \in {"httperror", "neterror"}

\* C11: a page request that fails with anything other than HTTP 429, at any
\* attempt index and also after earlier 429 retries of the same page, is the
\* last request of its task: no further attempt is made for the page, no
\* further request is issued, and the call returns at the break of line 76.
C11_NonRetryableFailureEndsTask ==
    \A t \in Tasks : \A i \in 1..Len(reqs[t]) :
        NonRetryable(reqs[t][i]) =>
            /\ i = Len(reqs[t])
            /\ t \in TerminalFailed

\* A task whose page was retried after HTTP 429 and then failed, at attempt
\* index 1, with a non-429 HTTP error; and one that failed with a network
\* error at attempt index 0 after a first page was received.
C11_Witness ==
    /\ \E t \in Tasks :
          /\ Len(reqs[t]) = 2
          /\ reqs[t][1].status = "429"
          /\ reqs[t][2].status = "httperror" /\ reqs[t][2].attempt = 1
          /\ t \in TerminalFailed
    /\ \E t \in Tasks :
          /\ Len(reqs[t]) = 2
          /\ IsPage(reqs[t][1])
          /\ reqs[t][2].status = "neterror" /\ reqs[t][2].attempt = 0
          /\ t \in TerminalFailed

\* ---------------------------------------------------------------- C12
\* C12: every file a prior run left under the naming pattern is deleted before
\* the first task is submitted, so no task begins while a file for its key
\* left by a prior run exists: once the main thread is past the loop of line
\* 138 the only files that exist are files of tasks this run has begun, and
\* no task's call found its file existing.
C12_PriorFilesDeletedBeforeSubmit ==
    /\ mainPc \in {"submit", "collect", "done"} =>
          \A f \in ExistingFiles : \E t \in Handed : f = FileOf(t)
    /\ Submitted > 0 => mainPc \notin {"cleanup", "remove"}
    /\ \A t \in Handed : ~call[t].existed

\* The cleanup loop has deleted the files a prior run left for every task of
\* this run, a file of the prior run's earlier day is still to be deleted,
\* and nothing is submitted yet.
C12_Witness ==
    /\ mainPc = "remove"
    /\ \A t \in Tasks : FileOf(t) \in to_remove /\ ~fs[FileOf(t)].exists
    /\ \E f \in to_remove : fs[f].exists
    /\ Tasks # {} /\ Submitted = 0 /\ Handed = {}

HadResults(q) == IsPage(q) \/ q.status = "nullnested"

\* Task t received a page with results, and every body it received was an
\* object.
GotRecords(t) ==
    /\ \E i \in 1..Len(reqs[t]) : HadResults(reqs[t][i])
    /\ \A i \in 1..Len(reqs[t]) : reqs[t][i].status # "notobject"

\* The nested fields of observation o that are missing or null.
Absent_species_detail(o) == o.species_detail \in {Missing, Null}

Absent_coordinates(o) ==
    o.point \in {Missing, Null} \/ o.coordinates \in {Missing, Null}

Absent_location_detail(o) == o.location_detail \in {Missing, Null}

Absent_user_detail(o) == o.user_detail \in {Missing, Null}

\* The row has null in the output fields of the nested fields that o lacks.
NullWhereAbsent(o, row) ==
    /\ Absent_species_detail(o) =>
          row.common_name = Null /\ row.scientific_name = Null
    /\ Absent_coordinates(o) => row.longitude = Null /\ row.latitude = Null
    /\ Absent_location_detail(o) => row.location = Null
    /\ Absent_user_detail(o) => row.observer = Null

\* C14: whatever subset of the nested fields species_detail, point,
\* point.coordinates, location_detail and user_detail of the observations is
\* missing or null, a page of such observations is normalized without an
\* exception, with null in the output fields of the absent nested fields,
\* its rows are written, and the task does not fail.
C14_AbsentNestedFieldsYieldNulls ==
    \A t \in Tasks :
        GotRecords(t) =>
            /\ ~Normalize(obs[t]).raised
            /\ NullWhereAbsent(obs[t], Normalize(obs[t]))
            /\ call[t].st # "raised"
            /\ Rows(fs[FileOf(t)].writes) > 0

\* The part of C14 the code meets: when the nested fields are missing (the
\* key is not in the object) and none is null.
C14_MissingNestedFieldsYieldNulls ==
    \A t \in Tasks :
        /\ obs[t].species_detail # Null /\ obs[t].point # Null
        /\ obs[t].location_detail # Null /\ obs[t].user_detail # Null
        /\ GotRecords(t)
        => /\ ~Normalize(obs[t]).raised
           /\ NullWhereAbsent(obs[t], Normalize(obs[t]))
           /\ call[t].st # "raised"
           /\ Rows(fs[FileOf(t)].writes) > 0

\* ---------------------------------------------------------------- C15
\* The number of times day d is in the executor's work queue.
TimesQueued(d) == Cardinality({i \in 1..Len(queue) : queue[i] = d})

\* C15: within one run every enumerated (day, group id) task is executed by
\* exactly one worker exactly once: no task is started twice or by two
\* workers (a day is queued at most once, and not while or after a thread
\* runs it; no task's call is made twice), and when the run is done every
\* task of the cross product was started once.
C15_EachTaskExecutedExactlyOnce ==
    /\ \A d \in Days :
          /\ TimesQueued(d) <= 1
          /\ TimesQueued(d) = 1 => futures[d].st = "pending"
    /\ \A t \in Tasks : call[t].times <= 1
    /\ mainPc = "done" => \A t \in Tasks : call[t].times = 1

\* ---------------------------------------------------------------- C16
\* The records of the pages among the first k requests of the sequence rs.
RECURSIVE RecordsBefore(_, _)
RecordsBefore(rs, k) ==
    IF k = 0 THEN 0
    ELSE RecordsBefore(rs, k - 1) + (IF IsPage(rs[k]) THEN rs[k].n ELSE 0)

\* C16: the first request of a task has offset 0, and every request has as
\* offset the total number of records of all earlier successful pages of the
\* task; so the offset never decreases from one request to the next, and it
\* is strictly larger after a page with records.
C16_OffsetIsRecordsSoFar ==
    \A t \in Tasks : \A i \in 1..Len(reqs[t]) :
        /\ i = 1 => reqs[t][i].offset = 0
        /\ reqs[t][i].offset = RecordsBefore(reqs[t], i - 1)
        /\ i > 1 => reqs[t][i].offset >= reqs[t][i - 1].offset
        /\ i > 1 /\ IsPage(reqs[t][i - 1]) =>
              reqs[t][i].offset > reqs[t][i - 1].offset

\* A task requested offsets 0, 5, 5 (a retry after HTTP 429) and 6: pages of
\* 5 records and of 1 record, fewer than the page size asked for.
C16_Witness ==
    \E t \in Tasks :
        /\ Len(reqs[t]) = 4
        /\ reqs[t][1].offset = 0 /\ reqs[t][1].n = 5 /\ IsPage(reqs[t][1])
        /\ reqs[t][2].offset = 5 /\ reqs[t][2].status = "429"
        /\ reqs[t][3].offset = 5 /\ reqs[t][3].n = 1 /\ IsPage(reqs[t][3])
        /\ reqs[t][4].offset = 6

\* ---------------------------------------------------------------- C17
\* The thread that runs task t, when one does.
RunsTask(w, t) == th[w].pc # "none" /\ TaskOf(w) = t

\* C17: a successful page with at least one record and no next indicator is
\* persisted and ends its task without another request (the break of line
\* 115); after a successful page with records and a next indicator the task
\* goes on to the request of the next page, at the offset after the page.
C17_NextIndicatorDecidesContinuation ==
    \A t \in Tasks : \A i \in 1..Len(reqs[t]) :
        LET q == reqs[t][i] IN
        IsPage(q) =>
            /\ WithoutHeader(fs[FileOf(t)].writes) = AsWrites(PagesOf(t))
            /\ ~q.next =>
                  /\ i = Len(reqs[t])
                  /\ call[t].st = "returned" /\ call[t].why = "nonext"
            /\ q.next =>
                  \/ /\ i = Len(reqs[t])
                     /\ call[t].st = "running"
                     /\ \E w \in Threads :
                           /\ RunsTask(w, t)
                           /\ th[w].pc = "request"
                           /\ th[w].offset = q.offset + q.n
                  \/ /\ i < Len(reqs[t])
                     /\ reqs[t][i + 1].offset = q.offset + q.n
                     /\ reqs[t][i + 1].attempt = 0

\* A task received a page of 5 records with a next indicator, requested the
\* next page and received 1 record without a next indicator: both pages are
\* in its file and the call has returned 6.
C17_Witness ==
    \E t \in Tasks :
        /\ Len(reqs[t]) = 2
        /\ IsPage(reqs[t][1]) /\ reqs[t][1].n = 5 /\ reqs[t][1].next
        /\ IsPage(reqs[t][2]) /\ reqs[t][2].n = 1 /\ ~reqs[t][2].next
        /\ Rows(fs[FileOf(t)].writes) = 6
        /\ call[t].st = "returned" /\ call[t].count = 6

\* ---------------------------------------------------------------- C18
\* The requests of task t whose response is outstanding.
Outstanding(t) ==
    {i \in 1..Len(reqs[t]) : reqs[t][i].status = "outstanding"}

\* C18: within one task at most one request is outstanding at any time, and
\* it is the last one issued: every request was issued after the responses
\* to all earlier requests of the task were received, and when a request is
\* outstanding the records of every page received before it are appended to
\* the task's file.
C18_OneRequestAtATime ==
    \A t \in Tasks :
        /\ Cardinality(Outstanding(t)) <= 1
        /\ Outstanding(t) \subseteq {Len(reqs[t])}
        /\ Outstanding(t) # {} =>
              /\ \E w \in Threads : RunsTask(w, t) /\ th[w].pc = "inflight"
              /\ WithoutHeader(fs[FileOf(t)].writes) = AsWrites(PagesOf(t))
              /\ Rows(fs[FileOf(t)].writes)
                    = RecordsBefore(reqs[t], Len(reqs[t]))

\* Two tasks' threads are each blocked in a request, one of them in the
\* request for its second page with the first page's 5 records in its file.
C18_Witness ==
    \E t, u \in Tasks :
        /\ t # u
        /\ Outstanding(u) = {1}
        /\ Outstanding(t) = {2}
        /\ IsPage(reqs[t][1])
        /\ Rows(fs[FileOf(t)].writes) = 5

\* ---------------------------------------------------------------- C19
\* A 2xx response whose body is malformed: not parseable as JSON (an empty
\* body included), or JSON that is not an object.
Malformed(q) == q.status \in {"badjson", "notobject"}

\* C19: a 2xx response with an empty or malformed body is handled like a
\* non-retryable failure: it is the last request of its task (no retry, no
\* further page), no exception leaves the task, and the call ends as the
\* failed ones do, at a break after a failed request.
C19_MalformedBodyEndsTaskAsFailed ==
    \A t \in Tasks : \A i \in 1..Len(reqs[t]) :
        Malformed(reqs[t][i]) =>
            /\ i = Len(reqs[t])
            /\ t \notin Raised
            /\ t \in TerminalFailed

\* ---------------------------------------------------------------- C20
\* The next step of the thread w of a task is possible: it can issue its
\* request, end its sleep, or receive a response (an empty page costs the
\* remote nothing).
CanStep(w) ==
    \/ th[w].pc = "request" /\ ENABLED SendRequest(w)
    \/ th[w].pc = "sleep" /\ ENABLED Sleep(w)
    \/ th[w].pc = "inflight" /\ ENABLED RecvPage(w, 0, FALSE)

\* Thread w waits in the backoff of a 429 or is blocked in a request.
Waiting(w) == th[w].pc \in {"sleep", "inflight"}

RECURSIVE Contiguous(_, _)
Contiguous(writes, from) ==
    \/ writes = <<>>
    \/ /\ Head(writes).first = from
       /\ Contiguous(Tail(writes), from + Head(writes).n)

\* C22: a retry after a 429 re-sends the request with the offset of the
\* failed attempt, as the next attempt of the same page; the request after a
\* page with records is attempt 0 again, whatever attempts that page used, so
\* that every page has the 3 attempts 0, 1, 2; and the pages a task received,
\* on a first attempt or on a retry, are each appended once to its file,
\* which covers the offsets from 0 on without gap.
C22_RetrySameOffsetFreshBudget ==
    \A t \in Tasks :
        /\ \A i \in 1..Len(reqs[t]) :
              /\ reqs[t][i].attempt \in 0..(MaxAttempts - 1)
              /\ i = 1 => reqs[t][i].attempt = 0
              /\ i > 1 /\ reqs[t][i - 1].status = "429" =>
                    /\ reqs[t][i].offset = reqs[t][i - 1].offset
                    /\ reqs[t][i].attempt = reqs[t][i - 1].attempt + 1
              /\ i > 1 /\ IsPage(reqs[t][i - 1]) => reqs[t][i].attempt = 0
        /\ Len(reqs[t]) > 0 =>
              /\ WithoutHeader(fs[FileOf(t)].writes) = AsWrites(PagesOf(t))
              /\ Contiguous(fs[FileOf(t)].writes, 0)

\* A task whose first page of 5 records came on the retry after a 429 and
\* whose second page of 1 record came on the retry after another 429: the
\* file holds the 6 records, and the second page began at attempt 0.
C22_Witness ==
    \E t \in Tasks :
        /\ Len(reqs[t]) = 4
        /\ reqs[t][1].status = "429" /\ reqs[t][1].attempt = 0
        /\ IsPage(reqs[t][2]) /\ reqs[t][2].attempt = 1 /\ reqs[t][2].n = 5
        /\ reqs[t][3].status = "429" /\ reqs[t][3].attempt = 0
        /\ reqs[t][3].offset = 5
        /\ IsPage(reqs[t][4]) /\ reqs[t][4].attempt = 1 /\ reqs[t][4].n = 1
        /\ reqs[t][4].offset = 5
        /\ Rows(fs[FileOf(t)].writes) = 6
        /\ Len(fs[FileOf(t)].writes) = 2

\* ---------------------------------------------------------------- C23
\* The counts the calls for the groups of day d returned, in the groups'
\* order.
CountsOfDay(d) == [i \in 1..Len(groups) |-> call[<<d, groups[i]>>].count]

\* C23: whenever fetch_and_append_to_csv has returned, at an empty page, at
\* a page without next indicator or after a terminal failure on any page,
\* the count it returned is the number of data rows it appended to the
\* task's file during the call; and the total process_day reports for a day
\* is the sum of the counts returned for the day's groups.
C23_CountIsRowsAppended ==
    /\ \A t \in Tasks :
          call[t].st = "returned" =>
              /\ call[t].count = Rows(fs[FileOf(t)].writes)
              /\ call[t].count = RecordsBefore(reqs[t], Len(reqs[t]))
    /\ \A d \in Days :
          futures[d].st = "finished" =>
              /\ \A i \in 1..Len(groups) :
                    call[<<d, groups[i]>>].st = "returned"
              /\ futures[d].total = SumSeq(CountsOfDay(d))

\* A day is finished with total 6: the call for the first group returned 5
\* after a page of 5 records and a terminal failure on the second page, the
\* call for the second group returned 1 on the success path.
C23_Witness ==
    \E d \in Days :
        /\ futures[d].st = "finished" /\ futures[d].total = 6
        /\ <<d, groups[1]>> \in TerminalFailed
        /\ call[<<d, groups[1]>>].count = 5
        /\ call[<<d, groups[2]>>].why = "nonext"
        /\ call[<<d, groups[2]>>].count = 1

\* ---------------------------------------------------------------- C21
\* The remote serves finitely many responses other than an empty page (the
\* budget), so every task that keeps asking receives an empty page at last.
\* Fair scheduling: a step that stays possible is taken at last.
FairSpecOneDay == InitOneDay /\ [][Next]_vars /\ WF_vars(Next)

\* The call for task t was made and has ended, by a return or an exception.
Ended(t) == call[t].st \in {"returned", "raised"}

\* The main thread printed a line for every day and is past line 155.
FinalReport == mainPc = "done" /\ Collected = Days

\* C21: with a remote that has finitely many records for every task and
\* under fair scheduling, every task terminates at last and the run reaches
\* its final report at last, and the final report comes only after all
\* tasks have ended and reported.
C21_AllTasksEndThenFinalReport ==
    /\ <>FinalReport
    /\ <>(\A t \in Tasks : Ended(t))
    /\ [](mainPc = "done" => \A t \in Tasks : Ended(t))

\* The run itself terminates under fair scheduling: the final report is
\* reached at last, after a line for every day, with no call still running.
C21_RunReachesFinalReport ==
    /\ <>(FinalReport /\ RunningTasks = {} /\ Running = {} /\ queue = <<>>)
    /\ [](mainPc = "done" => Collected = Days /\ RunningTasks = {})

====
